---- MODULE Spec2Model ----
(***************************************************************************)
(* Virtual threads for AVR (include/vthreads.h).                           *)
(*                                                                         *)
(* A virtual thread is a void function whose body is bracketed by VT_BEGIN *)
(* and VT_END.  VT_BEGIN declares the local vt_flag, jumps to the address  *)
(* held in the instruction pointer ip (goto *ip) and opens a for(;;) loop  *)
(* whose first statement carries the asm label <thread>__BEGIN.  VT_END    *)
(* closes the loop and places the asm label <thread>__STOP behind it.      *)
(* VT_YIELD stores the address of its own C label in ip and returns.       *)
(* VT_MARK places an asm label, VT_SEEK loads the address of one in ip.    *)
(*                                                                         *)
(* The body of the thread function is a sequence of statements.  Position  *)
(* i of the sequence stands for source line i of the body, so that the     *)
(* label FC_LABEL<__LINE__> of a yield at position i is FC_LABEL i.        *)
(***************************************************************************)
EXTENDS Integers, Sequences, FiniteSets, TLC

VARIABLES
  body,      \* the statements between VT_BEGIN and VT_END
  ip,        \* vthread_ip_t: the continuation of the thread
  pc,        \* control point of the thread function, or idle (not called)
  vt_flag,   \* char vt_flag, local of the thread function
  trace,     \* positions of the statements executed in the current slice
  entry,     \* value of ip the current slice was dispatched with
  wrapped,   \* the current slice passed the closing brace of for(;;)
  epi,       \* times the code behind VT_END ran in the current slice
  hist,      \* completed slices since the last VT_INIT/VT_RESTART/VT_SEEK
  lastop,    \* the last VT_INIT/VT_RESTART/VT_SEEK made by the caller
  prev,      \* value of ip before that operation
  other,     \* a second instance of the thread: its continuation, stored
             \* apart, and what was observed of it
  outer,     \* the interrupted frame of the thread function, under a nested
             \* invocation
  async      \* the last VT_SEEK made by another caller during a slice

vars == <<body, ip, pc, vt_flag, trace, entry, wrapped, epi, hist, lastop, prev,
          other, outer, async>>

----------------------------------------------------------------------------
(* Bounds of the model *)

\* longest generated body
MaxLen == 3
\* invocations followed after one VT_INIT/VT_RESTART/VT_SEEK of the caller
MaxInv == 4
\* longest recorded trace of one slice (longer slices keep running)
MaxTrace == 12

\* the name of the virtual thread (first argument of every macro)
THREAD == "t"

----------------------------------------------------------------------------
(* Labels and addresses *)

\* #thread "__" mark: the name of an asm label of the thread
FC_ASM_LABEL_NAME(thread, mark) == <<thread, mark>>

\* (variant) the BEGIN label under another spelling than the mark "BEGIN"
FC_ASM_LABEL_BEGIN_lower(thread) == FC_ASM_LABEL_NAME(thread, "begin")

FC_ASM_LABEL_BEGIN(thread) == FC_ASM_LABEL_NAME(thread, "BEGIN")

FC_ASM_LABEL_STOP(thread) == FC_ASM_LABEL_NAME(thread, "STOP")

\* (void*) of the program memory address of an asm label
FC_POINTER(label) == [label |-> label, kind |-> "asm", line |-> 0]

\* &&FC_LABEL<line>: the address of the C label inside the yield at that line
FC_LABEL(line) == [label |-> <<"FC_LABEL", "">>, kind |-> "c", line |-> line]

\* the addresses of the BEGIN label and of the STOP label of the thread
BeginAddress == FC_POINTER(FC_ASM_LABEL_BEGIN(THREAD))
StopAddress == FC_POINTER(FC_ASM_LABEL_STOP(THREAD))

\* vthread_ip_t before VT_INIT: no address of the thread function
Uninitialized == [label |-> <<"", "">>, kind |-> "none", line |-> 0]

----------------------------------------------------------------------------
(* Bodies *)

Seg == [op |-> "seg", arg |-> ""]
Yield == [op |-> "yield", arg |-> ""]
Break == [op |-> "break", arg |-> ""]
Mark(m) == [op |-> "mark", arg |-> m]
Seek(m) == [op |-> "seek", arg |-> m]

MarkNames == {"M1", "M2"}

\* statements the generated bodies are made of
Stmts == {Seg, Yield, Break, Mark("M1"), Seek("M1"), Seek("STOP")}

\* marks declared by VT_MARK in body b
Marks(b) == {b[i].arg : i \in {j \in 1..Len(b) : b[j].op = "mark"}}

\* asm labels of the thread function: BEGIN, STOP and the declared marks
Labels(b) == {"BEGIN", "STOP"} \cup Marks(b)

\* the body assembles and links: no asm label is defined twice, and every
\* label VT_SEEK takes the address of is defined
WellFormed(b) ==
  /\ Len(b) >= 1
  /\ \A i, j \in 1..Len(b) :
       (b[i].op = "mark" /\ b[j].op = "mark" /\ b[i].arg = b[j].arg) => i = j
  /\ \A i \in 1..Len(b) : b[i].op = "mark" => b[i].arg \notin {"BEGIN", "STOP"}
  /\ \A i \in 1..Len(b) : b[i].op = "seek" => b[i].arg \in Labels(b)

\* the bodies of the scenarios: A; yield; B; yield; C  and
\* A; yield; B; yield; mark; C,  and a body with two marks
Scenarios ==
  { <<Seg, Yield, Seg, Yield, Seg>>,
    <<Seg, Yield, Seg, Yield, Mark("M1"), Seg>>,
    <<Mark("M1"), Seg, Yield, Mark("M2"), Seg>> }

Generated ==
  {b \in UNION {[1..n -> Stmts] : n \in 1..MaxLen} : WellFormed(b)}

Bodies == Scenarios \cup Generated

\* positions of the yields of b, and their number
YieldPos(b) == {i \in 1..Len(b) : b[i].op = "yield"}
NYields(b) == Cardinality(YieldPos(b))

\* position of VT_MARK(thread, m) in b
MarkPos(b, m) == CHOOSE i \in 1..Len(b) : b[i] = Mark(m)

----------------------------------------------------------------------------
(* Control points of the thread function *)

Idle == [i |-> 0, k |-> "idle"]
AtStmt(i) == [i |-> i, k |-> "stmt"]
AtLabel(i) == [i |-> i, k |-> "label"]
AtEnd == [i |-> 0, k |-> "end"]
AtStop == [i |-> 0, k |-> "stop"]
AtEpilogue == [i |-> 0, k |-> "epi"]

\* the control point behind the statement at position i: the next statement,
\* or the closing brace of for(;;) that VT_END supplies
After(b, i) == IF i < Len(b) THEN AtStmt(i + 1) ELSE AtEnd

\* (variant) the address of a yield label resolves to the yield statement
\* itself, in front of vt_flag = 0
FC_RESUME_top(b, s) ==
  IF s = FC_POINTER(FC_ASM_LABEL_BEGIN(THREAD)) THEN AtStmt(1)
  ELSE IF s = FC_POINTER(FC_ASM_LABEL_STOP(THREAD)) THEN AtStop
  ELSE IF s.kind = "asm" THEN AtStmt(MarkPos(b, s.label[2]))
  ELSE AtStmt(s.line)

\* (variant) the address of every mark resolves to the BEGIN label
FC_RESUME_marks_top(b, s) ==
  IF s = FC_POINTER(FC_ASM_LABEL_STOP(THREAD)) THEN AtStop
  ELSE IF s.kind = "asm" THEN AtStmt(1)
  ELSE AtLabel(s.line)

\* goto *s: the control point whose address s is
FC_RESUME(b, s) ==
  IF s = FC_POINTER(FC_ASM_LABEL_BEGIN(THREAD)) THEN AtStmt(1)
  ELSE IF s = FC_POINTER(FC_ASM_LABEL_STOP(THREAD)) THEN AtStop
  ELSE IF s.kind = "asm" THEN AtStmt(MarkPos(b, s.label[2]))
  ELSE AtLabel(s.line)

\* addresses goto *ip can take in body b
Addresses(b) ==
  {FC_POINTER(FC_ASM_LABEL_NAME(THREAD, m)) : m \in Labels(b)}
    \cup {FC_LABEL(i) : i \in YieldPos(b)}

Record(t, i) == IF Len(t) < MaxTrace THEN Append(t, i) ELSE t

\* the slice that ends now, as kept in hist
Slice(newip, newepi) ==
  [ip |-> newip, entry |-> entry, wrapped |-> wrapped, epi |-> newepi, tr |-> trace]

\* a thread instance whose continuation is not yet initialized
NoInstance ==
  [ip |-> Uninitialized, vt_flag |-> 0, trace |-> <<>>, entry |-> Uninitialized,
   wrapped |-> FALSE, epi |-> 0, hist |-> <<>>,
   lastop |-> [mark |-> "", op |-> "none"], prev |-> Uninitialized]

\* no interrupted frame of the thread function
NoFrame ==
  [pc |-> Idle, vt_flag |-> 0, trace |-> <<>>, entry |-> Uninitialized,
   wrapped |-> FALSE, epi |-> 0]

\* no VT_SEEK by another caller during a slice since the caller's last
\* operation
NoAsync == [mark |-> "", at |-> -1, pos |-> 0]

----------------------------------------------------------------------------
(* Initial state: a thread function with some body, ip not yet initialized *)

\* no macro has acted on the continuation yet
Fresh ==
  /\ ip = Uninitialized
  /\ pc = Idle
  /\ vt_flag = 0
  /\ trace = <<>>
  /\ entry = Uninitialized
  /\ wrapped = FALSE
  /\ epi = 0
  /\ hist = <<>>
  /\ lastop = [mark |-> "", op |-> "none"]
  /\ prev = Uninitialized
  /\ other = NoInstance
  /\ outer = NoFrame
  /\ async = NoAsync

Init == body \in Bodies /\ Fresh

----------------------------------------------------------------------------
(* Operations of the caller, between invocations *)

CallerOp(op, mark, newip) ==
  /\ pc = Idle
  /\ ip' = newip
  /\ prev' = ip
  /\ lastop' = [mark |-> mark, op |-> op]
  /\ hist' = <<>>
  /\ async' = NoAsync
  /\ UNCHANGED <<body, other, outer, pc, vt_flag, trace, entry, wrapped, epi>>

\* (variant) VT_INIT loads the address of the STOP label
VT_INIT_as_stop(name) ==
  CallerOp(name, "", FC_POINTER(FC_ASM_LABEL_STOP(THREAD)))

\* VT_INIT(thread, ip): ip = FC_POINTER(FC_ASM_LABEL_BEGIN(thread)),
\* under the name of the macro the caller wrote
VT_INIT_as(name) ==
  CallerOp(name, "", FC_POINTER(FC_ASM_LABEL_BEGIN(THREAD)))

VT_INIT == VT_INIT_as("init")

\* VT_RESTART(thread, ip) is VT_INIT(thread, ip)
VT_RESTART == VT_INIT_as("restart")

\* (variant) VT_SEEK ignores the mark and loads the address of BEGIN
VT_SEEK_begin(mark) ==
  /\ mark \in Labels(body)
  /\ CallerOp("seek", mark, FC_POINTER(FC_ASM_LABEL_BEGIN(THREAD)))

\* VT_SEEK(thread, ip, mark) by the caller
VT_SEEK(mark) ==
  /\ mark \in Labels(body)
  /\ CallerOp("seek", mark, FC_POINTER(FC_ASM_LABEL_NAME(THREAD, mark)))

----------------------------------------------------------------------------
(* The thread function *)

\* the function returns to its caller
Return(newip, newepi) ==
  /\ pc' = Idle
  /\ ip' = newip
  /\ epi' = newepi
  /\ hist' = Append(hist, Slice(newip, newepi))

\* (variant) VT_BEGIN with char vt_flag = 0
VT_BEGIN_flag0 ==
  /\ pc = Idle
  /\ ip # Uninitialized
  /\ Len(hist) < MaxInv
  /\ vt_flag' = 0
  /\ pc' = FC_RESUME(body, ip)
  /\ entry' = ip
  /\ trace' = <<>>
  /\ wrapped' = FALSE
  /\ epi' = 0
  /\ UNCHANGED <<body, other, outer, async, ip, hist, lastop, prev>>

\* call of the thread function and VT_BEGIN: char vt_flag = 1; goto *ip
VT_BEGIN ==
  /\ pc = Idle
  /\ ip # Uninitialized
  /\ Len(hist) < MaxInv
  /\ vt_flag' = 1
  /\ pc' = FC_RESUME(body, ip)
  /\ entry' = ip
  /\ trace' = <<>>
  /\ wrapped' = FALSE
  /\ epi' = 0
  /\ UNCHANGED <<body, other, outer, async, ip, hist, lastop, prev>>

\* a straight-line segment of the body
Segment ==
  /\ pc.k = "stmt"
  /\ body[pc.i].op = "seg"
  /\ trace' = Record(trace, pc.i)
  /\ pc' = After(body, pc.i)
  /\ UNCHANGED <<body, other, outer, async, ip, vt_flag, entry, wrapped, epi,
                 hist, lastop, prev>>

\* (variant) VT_YIELD without vt_flag = 0
VT_YIELD_enter_noclear ==
  /\ pc.k = "stmt"
  /\ body[pc.i].op = "yield"
  /\ trace' = Record(trace, pc.i)
  /\ pc' = AtLabel(pc.i)
  /\ UNCHANGED <<body, other, outer, async, ip, vt_flag, entry, wrapped, epi,
                 hist, lastop, prev>>

\* (variant) VT_YIELD that stores the address of its label before it clears
\* vt_flag, ahead of the return
VT_YIELD_enter_store ==
  /\ pc.k = "stmt"
  /\ body[pc.i].op = "yield"
  /\ vt_flag' = 0
  /\ ip' = FC_LABEL(pc.i)
  /\ trace' = Record(trace, pc.i)
  /\ pc' = AtLabel(pc.i)
  /\ UNCHANGED <<body, other, outer, async, entry, wrapped, epi, hist,
                 lastop, prev>>

\* VT_YIELD reached by sequential flow: vt_flag = 0, then the label
VT_YIELD_enter ==
  /\ pc.k = "stmt"
  /\ body[pc.i].op = "yield"
  /\ vt_flag' = 0
  /\ trace' = Record(trace, pc.i)
  /\ pc' = AtLabel(pc.i)
  /\ UNCHANGED <<body, other, outer, async, ip, entry, wrapped, epi, hist,
                 lastop, prev>>

\* (variant) VT_YIELD without the test of vt_flag: the label always stores its
\* address and returns
VT_YIELD_label_noflag ==
  /\ pc.k = "label"
  /\ Return(FC_LABEL(pc.i), epi)
  /\ UNCHANGED <<body, other, outer, async, vt_flag, trace, entry, wrapped,
                 lastop, prev>>

\* (variant) VT_YIELD with break in place of return: the slice leaves through
\* the STOP label and the code behind VT_END
VT_YIELD_label_break ==
  /\ pc.k = "label"
  /\ IF vt_flag = 0
       THEN /\ ip' = FC_LABEL(pc.i)
            /\ pc' = AtStop
            /\ UNCHANGED <<body, other, outer, async, vt_flag, trace, entry,
                           wrapped, epi, hist,
                           lastop, prev>>
       ELSE /\ pc' = After(body, pc.i)
            /\ UNCHANGED <<body, other, outer, async, ip, vt_flag, trace,
                           entry, wrapped, epi, hist, lastop, prev>>

\* (variant) VT_YIELD without return: the label stores its address and the
\* slice goes on
VT_YIELD_label_fallthrough ==
  /\ pc.k = "label"
  /\ IF vt_flag = 0
       THEN /\ ip' = FC_LABEL(pc.i)
            /\ pc' = After(body, pc.i)
            /\ UNCHANGED <<body, other, outer, async, vt_flag, trace, entry,
                           wrapped, epi, hist,
                           lastop, prev>>
       ELSE /\ pc' = After(body, pc.i)
            /\ UNCHANGED <<body, other, outer, async, ip, vt_flag, trace,
                           entry, wrapped, epi, hist, lastop, prev>>

\* (variant) VT_YIELD that stores its address in one continuation shared by
\* the instances of the thread
VT_YIELD_label_shared ==
  /\ pc.k = "label"
  /\ IF vt_flag = 0
       THEN /\ Return(FC_LABEL(pc.i), epi)
            /\ other' = [other EXCEPT !.ip = FC_LABEL(pc.i)]
            /\ UNCHANGED <<body, outer, async, vt_flag, trace, entry,
                           wrapped, lastop, prev>>
       ELSE /\ pc' = After(body, pc.i)
            /\ UNCHANGED <<body, other, outer, async, ip, vt_flag, trace,
                           entry, wrapped, epi, hist, lastop, prev>>

\* (variant) VT_YIELD that keeps an address sought during the slice
VT_YIELD_label_keepseek ==
  /\ pc.k = "label"
  /\ IF vt_flag = 0
       THEN /\ Return(IF ip = entry THEN FC_LABEL(pc.i) ELSE ip, epi)
            /\ UNCHANGED <<body, other, outer, async, vt_flag, trace, entry,
                           wrapped, lastop, prev>>
       ELSE /\ pc' = After(body, pc.i)
            /\ UNCHANGED <<body, other, outer, async, ip, vt_flag, trace,
                           entry, wrapped, epi, hist, lastop, prev>>

\* FC_LABEL<line>: if (vt_flag == 0) { ip = &&FC_LABEL<line>; return; }
VT_YIELD_label ==
  /\ pc.k = "label"
  /\ IF vt_flag = 0
       THEN /\ Return(FC_LABEL(pc.i), epi)
            /\ UNCHANGED <<body, other, outer, async, vt_flag, trace, entry,
                           wrapped, lastop, prev>>
       ELSE /\ pc' = After(body, pc.i)
            /\ UNCHANGED <<body, other, outer, async, ip, vt_flag, trace,
                           entry, wrapped, epi, hist, lastop, prev>>

\* (variant) VT_MARK that stores the address of its label in ip
VT_MARK_store ==
  /\ pc.k = "stmt"
  /\ body[pc.i].op = "mark"
  /\ ip' = FC_POINTER(FC_ASM_LABEL_NAME(THREAD, body[pc.i].arg))
  /\ trace' = Record(trace, pc.i)
  /\ pc' = After(body, pc.i)
  /\ UNCHANGED <<body, other, outer, async, vt_flag, entry, wrapped, epi,
                 hist, lastop, prev>>

\* VT_MARK(thread, mark): an asm label, no code
VT_MARK ==
  /\ pc.k = "stmt"
  /\ body[pc.i].op = "mark"
  /\ trace' = Record(trace, pc.i)
  /\ pc' = After(body, pc.i)
  /\ UNCHANGED <<body, other, outer, async, ip, vt_flag, entry, wrapped, epi,
                 hist, lastop, prev>>

\* (variant) VT_SEEK that also jumps to the label
VT_SEEK_body_goto ==
  /\ pc.k = "stmt"
  /\ body[pc.i].op = "seek"
  /\ ip' = FC_POINTER(FC_ASM_LABEL_NAME(THREAD, body[pc.i].arg))
  /\ trace' = Record(trace, pc.i)
  /\ pc' = FC_RESUME(body, FC_POINTER(FC_ASM_LABEL_NAME(THREAD, body[pc.i].arg)))
  /\ UNCHANGED <<body, other, outer, async, vt_flag, entry, wrapped, epi,
                 hist, lastop, prev>>

\* VT_SEEK(thread, ip, mark) inside the body
VT_SEEK_body ==
  /\ pc.k = "stmt"
  /\ body[pc.i].op = "seek"
  /\ ip' = FC_POINTER(FC_ASM_LABEL_NAME(THREAD, body[pc.i].arg))
  /\ trace' = Record(trace, pc.i)
  /\ pc' = After(body, pc.i)
  /\ UNCHANGED <<body, other, outer, async, vt_flag, entry, wrapped, epi,
                 hist, lastop, prev>>

\* (variant) break that also stores the address of the STOP label
BreakLoop_stop ==
  /\ pc.k = "stmt"
  /\ body[pc.i].op = "break"
  /\ ip' = StopAddress
  /\ trace' = Record(trace, pc.i)
  /\ pc' = AtStop
  /\ UNCHANGED <<body, other, outer, async, vt_flag, entry, wrapped, epi,
                 hist, lastop, prev>>

\* break inside the body leaves for(;;) and reaches the STOP label
BreakLoop ==
  /\ pc.k = "stmt"
  /\ body[pc.i].op = "break"
  /\ trace' = Record(trace, pc.i)
  /\ pc' = AtStop
  /\ UNCHANGED <<body, other, outer, async, ip, vt_flag, entry, wrapped, epi,
                 hist, lastop, prev>>

\* (variant) VT_END without the loop: the end of the body falls to the STOP
\* label
VT_END_loop_exit ==
  /\ pc.k = "end"
  /\ pc' = AtStop
  /\ UNCHANGED <<body, other, outer, async, ip, vt_flag, trace, entry,
                 wrapped, epi, hist, lastop, prev>>

\* the closing brace of for(;;) in VT_END: back to the BEGIN label
VT_END_loop ==
  /\ pc.k = "end"
  /\ pc' = AtStmt(1)
  /\ wrapped' = TRUE
  /\ UNCHANGED <<body, other, outer, async, ip, vt_flag, trace, entry, epi,
                 hist, lastop, prev>>

\* (variant) the STOP label rewinds ip to BEGIN
VT_END_stop_rewind ==
  /\ pc.k = "stop"
  /\ pc' = AtEpilogue
  /\ ip' = BeginAddress
  /\ UNCHANGED <<body, other, outer, async, vt_flag, trace, entry, wrapped,
                 epi, hist, lastop, prev>>

\* (variant) the STOP label clears ip
VT_END_stop_clear ==
  /\ pc.k = "stop"
  /\ pc' = AtEpilogue
  /\ ip' = Uninitialized
  /\ UNCHANGED <<body, other, outer, async, vt_flag, trace, entry, wrapped,
                 epi, hist, lastop, prev>>

\* the STOP label of VT_END: (void)vt_flag; and the do/while(0) is left
VT_END_stop ==
  /\ pc.k = "stop"
  /\ pc' = AtEpilogue
  /\ UNCHANGED <<body, other, outer, async, ip, vt_flag, trace, entry,
                 wrapped, epi, hist, lastop, prev>>

\* the code of the function behind VT_END, then the function returns
Epilogue ==
  /\ pc.k = "epi"
  /\ Return(ip, epi + 1)
  /\ UNCHANGED <<body, other, outer, async, vt_flag, trace, entry, wrapped,
                 lastop, prev>>

----------------------------------------------------------------------------

\* a step of the running slice
SliceStep ==
  \/ Segment
  \/ VT_YIELD_enter
  \/ VT_YIELD_label
  \/ VT_MARK
  \/ VT_SEEK_body
  \/ BreakLoop
  \/ VT_END_loop
  \/ VT_END_stop
  \/ Epilogue

Next ==
  \/ VT_INIT
  \/ VT_RESTART
  \/ \E mark \in {"BEGIN", "STOP"} \cup MarkNames : VT_SEEK(mark)
  \/ VT_BEGIN
  \/ SliceStep

Spec == Init /\ [][Next]_vars

\* the thread function, once called, keeps executing
FairSpec == Spec /\ WF_vars(SliceStep)

TypeOK ==
  /\ body \in Bodies
  /\ ip \in Addresses(body) \cup {Uninitialized}
  /\ vt_flag \in {0, 1}
  /\ epi \in 0..1
  /\ Len(hist) <= MaxInv
  /\ Len(trace) <= MaxTrace

----------------------------------------------------------------------------
(* Segments of a body *)

\* bodies made of straight-line statements, marks and yields only
OnlyYields(b) == \A i \in 1..Len(b) : b[i].op \in {"seg", "yield", "mark"}

\* position of the k-th yield of b; 0 for k = 0, Len(b) + 1 behind the last
KthYield(b, k) ==
  IF k = 0 THEN 0
  ELSE IF k > NYields(b) THEN Len(b) + 1
  ELSE CHOOSE p \in YieldPos(b) : Cardinality({q \in YieldPos(b) : q <= p}) = k

\* the positions strictly between positions a and z, in order
Span(a, z) == [j \in 1..(z - a - 1) |-> a + j]

\* segment k of b: the statements between yield k and yield k + 1
SegStmts(b, k) == Span(KthYield(b, k), KthYield(b, k + 1))

\* only invocations since the last VT_INIT/VT_RESTART of the caller
SinceInit == lastop.op \in {"init", "restart"}

----------------------------------------------------------------------------
(* C1 *)

\* the first N slices after init: slice k runs segment k - 1 and then yield k,
\* which leaves the tag of yield k in ip
C1_FirstSlices ==
  \A k \in 1..NYields(body) :
    k <= Len(hist) =>
      /\ hist[k].tr = SegStmts(body, k - 1) \o <<KthYield(body, k)>>
      /\ hist[k].ip = FC_LABEL(KthYield(body, k))

C1_Case ==
  /\ SinceInit
  /\ OnlyYields(body)
  /\ NYields(body) >= 1

\* C1 as stated: slice N + 1 runs segment N only and leaves ip at STOP
C1_Original ==
  C1_Case =>
    /\ C1_FirstSlices
    /\ Len(hist) > NYields(body) =>
         /\ hist[NYields(body) + 1].tr = SegStmts(body, NYields(body))
         /\ hist[NYields(body) + 1].ip = StopAddress

\* C1 (amended): for a body with N >= 1 yields, after init the slices 1..N
\* run the segments 0..N-1 in order, each once, and leave ip at Y1..YN; slice
\* N + 1 runs segment N, passes the end of the body, runs segment 0 again and
\* leaves ip at Y1, not at STOP.
C1_RoundTrip ==
  C1_Case =>
    /\ C1_FirstSlices
    /\ Len(hist) > NYields(body) =>
         /\ hist[NYields(body) + 1].tr =
              SegStmts(body, NYields(body)) \o SegStmts(body, 0)
                \o <<KthYield(body, 1)>>
         /\ hist[NYields(body) + 1].ip = FC_LABEL(KthYield(body, 1))
         /\ hist[NYields(body) + 1].wrapped

\* A; yield; B; yield; C after init and three invocations
C1_Witness ==
  /\ body = <<Seg, Yield, Seg, Yield, Seg>>
  /\ lastop.op = "init"
  /\ Len(hist) = 3
  /\ hist[3].tr = <<5, 1, 2>>

----------------------------------------------------------------------------
(* C3 *)

\* C3: the closing brace of the body leads to the first statement of the body
\* in the same invocation, and a body that only yields, invoked any number of
\* times after init, never leaves ip at the STOP label.
C3_RunsForever ==
  /\ []((SinceInit /\ OnlyYields(body)) => ip # StopAddress)
  /\ [][pc.k = "end" => (pc' = AtStmt(1) /\ hist' = hist /\ ip' = ip)]_vars

C3_Witness ==
  /\ SinceInit
  /\ OnlyYields(body)
  /\ NYields(body) >= 1
  /\ wrapped
  /\ pc = AtStmt(1)
  /\ Len(hist) >= 2

----------------------------------------------------------------------------
(* Slices *)

Last(t) == t[Len(t)]

\* the slice ended in the return of a yield
EndedAtYield(h) == h.tr # <<>> /\ body[Last(h.tr)].op = "yield"

\* the slice reached the STOP label: dispatched to it, or left the loop
ReachedStop(h) ==
  \/ h.entry = StopAddress
  \/ h.tr # <<>> /\ body[Last(h.tr)].op = "break"

----------------------------------------------------------------------------
(* C2 *)

\* a slice that ended at a yield left the tag of that yield in ip
C2_TagOfSite ==
  \A k \in 1..Len(hist) :
    hist[k].epi = 0 =>
      /\ EndedAtYield(hist[k])
      /\ hist[k].ip = FC_LABEL(Last(hist[k].tr))

C2_Resumed == pc # Idle /\ entry.kind = "c"

\* C2 as stated: the first statement a slice resumed at a yield executes is
\* the one at the position behind the yield
C2_Original ==
  /\ C2_TagOfSite
  /\ (C2_Resumed /\ trace # <<>>) => trace[1] = entry.line + 1

\* C2 (amended): after a yield the continuation is the tag of that call site
\* and the next invocation resumes behind the yield, executing no statement
\* on the way: the first statement it executes is the one after the yield,
\* or, when the yield is the last statement of the body, the first statement
\* of the body.
C2_ResumeAfterYield ==
  /\ C2_TagOfSite
  /\ C2_Resumed =>
       /\ body[entry.line].op = "yield"
       /\ trace = <<>> =>
            \/ pc = AtLabel(entry.line) /\ vt_flag = 1
            \/ pc = After(body, entry.line) /\ ~wrapped
            \/ pc = AtStmt(1) /\ wrapped /\ entry.line = Len(body)
       /\ trace # <<>> =>
            trace[1] = IF entry.line < Len(body) THEN entry.line + 1 ELSE 1

C2_Witness ==
  /\ C2_Resumed
  /\ entry.line < Len(body)
  /\ trace = <<entry.line + 1>>
  /\ Len(hist) >= 1
  /\ hist[Len(hist)].ip = entry

----------------------------------------------------------------------------
(* C4 *)

\* C4 as stated: the code behind VT_END ran once in every invocation
C4_Original == \A k \in 1..Len(hist) : hist[k].epi = 1

\* C4 (amended): the code behind VT_END runs exactly once in every invocation
\* whose slice reaches the STOP label (entered with ip at STOP, or leaving the
\* loop by break) and does not run in an invocation whose slice ends in a
\* yield, because the yield returns from the function.
C4_Epilogue ==
  /\ \A k \in 1..Len(hist) :
       /\ ReachedStop(hist[k]) => hist[k].epi = 1
       /\ EndedAtYield(hist[k]) => hist[k].epi = 0
       /\ ReachedStop(hist[k]) \/ EndedAtYield(hist[k])
  /\ pc.k \notin {"idle", "epi"} => epi = 0

C4_Witness ==
  /\ Len(hist) >= 2
  /\ \E k \in 1..Len(hist) : EndedAtYield(hist[k]) /\ hist[k].epi = 0
  /\ \E k \in 1..Len(hist) : ReachedStop(hist[k]) /\ hist[k].epi = 1

----------------------------------------------------------------------------
(* C5 *)

\* a step of the caller: VT_INIT, VT_RESTART or VT_SEEK
IsCallerOp ==
  /\ pc = Idle
  /\ pc' = Idle
  /\ lastop'.op \in {"init", "restart", "seek"}
  /\ hist' = <<>>

----------------------------------------------------------------------------
(* C6 *)

\* the caller's last operation was a seek to a declared mark, and no slice was
\* completed since
SoughtMark == lastop.op = "seek" /\ lastop.mark \in Marks(body) /\ hist = <<>>

MarkAddress(m) == FC_POINTER(FC_ASM_LABEL_NAME(THREAD, m))

\* the invocation that follows the seek starts at the mark
C6_StartsAtMark ==
  SoughtMark =>
    /\ pc = Idle => ip = MarkAddress(lastop.mark)
    /\ pc # Idle =>
         /\ entry = MarkAddress(lastop.mark)
         /\ trace = <<>> => pc = AtStmt(MarkPos(body, lastop.mark)) /\ ~wrapped
         /\ trace # <<>> => trace[1] = MarkPos(body, lastop.mark)

\* C6 as stated: the invocation that follows a seek to mark M executes no
\* statement that precedes M
C6_Original ==
  /\ C6_StartsAtMark
  /\ (SoughtMark /\ pc # Idle) =>
       \A j \in 1..Len(trace) : trace[j] >= MarkPos(body, lastop.mark)

\* C6 (amended): after a seek to mark M between invocations, from any prior
\* continuation, the next invocation starts executing at M and executes the
\* code from M onward; it executes no statement that precedes M before it
\* passes the end of the body, where the loop takes it to the first statement
\* (with ip at Y1 in A; yield; B; yield; mark; C the seek makes the next
\* invocation execute C, skipping B, and then A up to the first yield).
C6_Seek ==
  /\ C6_StartsAtMark
  /\ (SoughtMark /\ pc # Idle /\ ~wrapped) =>
       \A j \in 1..Len(trace) : trace[j] >= MarkPos(body, lastop.mark)
  /\ ( /\ body = <<Seg, Yield, Seg, Yield, Mark("M1"), Seg>>
       /\ lastop = [mark |-> "M1", op |-> "seek"]
       /\ Len(hist) >= 1 )
       => hist[1].tr = <<5, 6, 1, 2>>

C6_Witness ==
  /\ body = <<Seg, Yield, Seg, Yield, Mark("M1"), Seg>>
  /\ lastop = [mark |-> "M1", op |-> "seek"]
  /\ prev = FC_LABEL(2)
  /\ Len(hist) = 1
  /\ hist[1].tr = <<5, 6, 1, 2>>

----------------------------------------------------------------------------
(* C7 *)

\* C7: VT_INIT and VT_RESTART alike, applied with ip in any state, leave ip at
\* BEGIN, and the next invocation starts executing at the first statement of
\* the body.
C7_Restart ==
  (SinceInit /\ hist = <<>>) =>
    /\ pc = Idle => ip = BeginAddress
    /\ pc # Idle =>
         /\ entry = BeginAddress
         /\ trace = <<>> => pc = AtStmt(1) /\ ~wrapped
         /\ trace # <<>> => trace[1] = 1

C7_Witness ==
  /\ lastop.op = "restart"
  /\ prev = StopAddress
  /\ hist = <<>>
  /\ trace = <<1>>
  /\ pc.k = "stmt"

----------------------------------------------------------------------------
(* C8 *)

\* C8 as stated: every invocation returns, for bodies with N >= 0 yields
C8_Original == (pc # Idle) ~> (pc = Idle)

\* C8 (amended): every invocation of a body with N >= 1 yield points returns
\* to its caller after finitely many steps, whatever valid continuation it is
\* entered with; a body without a yield, break or return never leaves the
\* for(;;) loop.
C8_Returns == (pc # Idle /\ NYields(body) >= 1) ~> (pc = Idle)

C8_Witness ==
  /\ NYields(body) >= 1
  /\ Len(hist) >= 1
  /\ pc = Idle
  /\ hist[Len(hist)].wrapped
  /\ hist[Len(hist)].entry.kind = "asm"

----------------------------------------------------------------------------
(* C9 *)

\* the address written last to ip in slice h: the address of the last
\* executed VT_SEEK, or the address the slice was entered with
LastSeek(h) ==
  LET seeks == {j \in 1..Len(h.tr) : body[h.tr[j]].op = "seek"}
  IN IF seeks = {} THEN h.entry
     ELSE MarkAddress(body[h.tr[CHOOSE j \in seeks : \A l \in seeks : l <= j]].arg)

----------------------------------------------------------------------------
(* C10 *)

\* position of the statement behind resumption point s (STOP has none)
PointPos(b, s) ==
  IF s = BeginAddress THEN 1
  ELSE IF s = StopAddress THEN Len(b) + 1
  ELSE IF s.kind = "asm" THEN MarkPos(b, s.label[2])
  ELSE s.line + 1

\* C10 as stated: every statement executed in a slice lies at or after the
\* point the slice was dispatched to
C10_Original ==
  pc # Idle => \A j \in 1..Len(trace) : trace[j] >= PointPos(body, entry)

\* C10 (amended): within one invocation every statement executed before the
\* slice passes the end of the body lies at or after the resumption point P;
\* the only backward step is the one from the end of the body to its first
\* statement, after which statements preceding P are executed.
C10_NoReplay ==
  pc # Idle =>
    /\ ~wrapped => \A j \in 1..Len(trace) : trace[j] >= PointPos(body, entry)
    /\ \A j \in 1..(Len(trace) - 1) :
         \/ trace[j + 1] = trace[j] + 1
         \/ trace[j] = Len(body) /\ trace[j + 1] = 1

C10_Witness ==
  /\ pc # Idle
  /\ wrapped
  /\ entry.kind = "c"
  /\ NYields(body) >= 2
  /\ trace # <<>>
  /\ Last(trace) < PointPos(body, entry)

----------------------------------------------------------------------------
(* C12 *)

\* the step is a VT_SEEK of the caller
IsCallerSeek == IsCallerOp /\ lastop'.op = "seek"

\* the step is a VT_SEEK inside the body
IsBodySeek == pc.k = "stmt" /\ body[pc.i].op = "seek"

\* C12: VT_SEEK writes ip and nothing else: inside the body the slice goes on
\* with the statement behind the seek and is not ended, outside it the thread
\* function is not entered; the address sought is the one the next dispatch
\* reads when the slice writes no other.
C12_SeekOnlyIp ==
  /\ [][IsBodySeek =>
          /\ ip' = MarkAddress(body[pc.i].arg)
          /\ pc' = After(body, pc.i)
          /\ vt_flag' = vt_flag
          /\ hist' = hist
          /\ epi' = epi
          /\ wrapped' = wrapped
          /\ entry' = entry]_vars
  /\ [][IsCallerSeek =>
          /\ ip' = MarkAddress(lastop'.mark)
          /\ pc' = Idle
          /\ vt_flag' = vt_flag
          /\ trace' = trace
          /\ epi' = epi]_vars
  /\ [](\A k \in 1..Len(hist) :
          (hist[k].epi = 1 /\ k < Len(hist)) => hist[k + 1].entry = LastSeek(hist[k]))

C12_Witness ==
  /\ pc # Idle
  /\ ip = MarkAddress("M1")
  /\ entry # MarkAddress("M1")
  /\ \E j \in 1..(Len(trace) - 1) :
       body[trace[j]] = Seek("M1") /\ trace[j + 1] = trace[j] + 1

----------------------------------------------------------------------------
(* C13 *)

\* C13: VT_YIELD writes ip (and vt_flag) and nothing else and ends the slice
\* at once: the statement reached by sequential flow clears vt_flag, the label
\* stores its address and returns, and the yield is the last statement of the
\* slice.
C13_YieldOnlyIp ==
  /\ [][(pc.k = "stmt" /\ body[pc.i].op = "yield") =>
          /\ pc' = AtLabel(pc.i)
          /\ ip' = ip
          /\ hist' = hist
          /\ epi' = epi]_vars
  /\ [][(pc.k = "label" /\ vt_flag = 0) =>
          /\ pc' = Idle
          /\ ip' = FC_LABEL(pc.i)
          /\ vt_flag' = vt_flag
          /\ trace' = trace
          /\ epi' = epi
          /\ hist' = Append(hist, Slice(FC_LABEL(pc.i), epi))]_vars
  /\ [](\A k \in 1..Len(hist) : \A j \in 1..(Len(hist[k].tr) - 1) :
          body[hist[k].tr[j]].op # "yield")

C13_Witness ==
  /\ pc = Idle
  /\ Len(hist) >= 1
  /\ EndedAtYield(hist[Len(hist)])
  /\ Len(hist[Len(hist)].tr) >= 2
  /\ ip = FC_LABEL(Last(hist[Len(hist)].tr))

----------------------------------------------------------------------------
(* C14 *)

\* C14: a slice that reaches VT_MARK goes on with the statement behind it; the
\* slice is not ended and ip is not written.
C14_MarkFlowsThrough ==
  [][(pc.k = "stmt" /\ body[pc.i].op = "mark") =>
       /\ pc' = After(body, pc.i)
       /\ ip' = ip
       /\ vt_flag' = vt_flag
       /\ hist' = hist
       /\ epi' = epi]_vars

C14_Witness ==
  /\ pc # Idle
  /\ \E j \in 2..(Len(trace) - 1) :
       /\ body[trace[j]].op = "mark"
       /\ trace[j - 1] = trace[j] - 1
       /\ trace[j + 1] = trace[j] + 1
  /\ ip # MarkAddress("M1")

----------------------------------------------------------------------------
(* C15 *)

\* C15: once VT_INIT, VT_RESTART or VT_SEEK has written ip, ip is the address
\* of BEGIN, of STOP, of a declared mark or of the label of a yield of the
\* body, in every state; every slice is dispatched with such an address.
C15_ClosedSet ==
  lastop.op # "none" =>
    /\ ip \in Addresses(body)
    /\ ip # Uninitialized
    /\ pc # Idle => entry \in Addresses(body)
    /\ \A k \in 1..Len(hist) :
         hist[k].entry \in Addresses(body) /\ hist[k].ip \in Addresses(body)

C15_Witness ==
  /\ ip.kind = "c"
  /\ lastop.op = "seek"
  /\ lastop.mark \in Marks(body)
  /\ Len(hist) >= 2
  /\ hist[1].entry = MarkAddress(lastop.mark)

----------------------------------------------------------------------------
(* C16 *)

\* C16: vt_flag is 1 from the dispatch on and is cleared only by a yield
\* reached by sequential flow, which returns at its label at once; a slice
\* that is dispatched to the label of a yield passes it with vt_flag = 1,
\* writes nothing and goes on behind the yield.
C16_FlagGuardsYield ==
  /\ [](pc.k \in {"stmt", "end", "stop", "epi"} => vt_flag = 1)
  /\ [](pc.k = "label" =>
          \/ vt_flag = 0 /\ trace # <<>> /\ Last(trace) = pc.i
          \/ vt_flag = 1 /\ trace = <<>> /\ entry = FC_LABEL(pc.i))
  /\ [][(pc.k = "label" /\ vt_flag = 1) =>
          (pc' = After(body, pc.i) /\ ip' = ip /\ hist' = hist)]_vars
  /\ [][(pc.k = "label" /\ pc' = Idle) =>
          (vt_flag = 0 /\ Last(trace) = pc.i)]_vars

C16_Witness ==
  /\ pc.k = "stmt"
  /\ entry.kind = "c"
  /\ vt_flag = 1
  /\ trace = <<entry.line + 1>>
  /\ ip = entry

----------------------------------------------------------------------------
(* C19 *)

SoughtName(m) == lastop = [mark |-> m, op |-> "seek"]

\* C19: VT_SEEK to the name "BEGIN" leaves in ip the address VT_INIT leaves,
\* and the next invocation starts at the first statement of the body; VT_SEEK
\* to the name "STOP" leaves the address of the STOP label, and the
\* invocations that follow execute no statement of the body.
C19_ReservedNames ==
  /\ (SoughtName("BEGIN") /\ hist = <<>>) =>
       /\ pc = Idle => ip = FC_POINTER(FC_ASM_LABEL_BEGIN(THREAD))
       /\ pc # Idle =>
            /\ entry = FC_POINTER(FC_ASM_LABEL_BEGIN(THREAD))
            /\ trace = <<>> => pc = AtStmt(1)
            /\ trace # <<>> => trace[1] = 1
  /\ SoughtName("STOP") =>
       /\ ip = FC_POINTER(FC_ASM_LABEL_STOP(THREAD))
       /\ pc \in {Idle, AtStop, AtEpilogue}
       /\ pc # Idle => trace = <<>>
       /\ \A k \in 1..Len(hist) : hist[k].tr = <<>> /\ hist[k].epi = 1

C19_Witness ==
  /\ SoughtName("BEGIN")
  /\ prev = StopAddress
  /\ Len(hist) = 1
  /\ hist[1].entry = BeginAddress
  /\ hist[1].tr[1] = 1

----------------------------------------------------------------------------
(* Two instances of one thread body *)

\* the bodies of the two-instance runs
IsoBodies ==
  { <<Seg, Seek("M1"), Seg, Yield, Mark("M1"), Seg>>,
    <<Seg, Yield, Break>> }

\* the caller turns to the other instance between invocations: the macros
\* are given the other continuation as their ip argument from now on
Switch ==
  /\ pc = Idle
  /\ outer = NoFrame
  /\ ip' = other.ip
  /\ vt_flag' = other.vt_flag
  /\ trace' = other.trace
  /\ entry' = other.entry
  /\ wrapped' = other.wrapped
  /\ epi' = other.epi
  /\ hist' = other.hist
  /\ lastop' = other.lastop
  /\ prev' = other.prev
  /\ other' = [ip |-> ip, vt_flag |-> vt_flag, trace |-> trace, entry |-> entry,
               wrapped |-> wrapped, epi |-> epi, hist |-> hist,
               lastop |-> lastop, prev |-> prev]
  /\ UNCHANGED <<body, pc, outer, async>>

IsoInit == body \in IsoBodies /\ Fresh

IsoNext ==
  \/ VT_INIT
  \/ VT_RESTART
  \/ \E mark \in {"BEGIN", "STOP"} \cup MarkNames : VT_SEEK(mark)
  \/ VT_BEGIN
  \/ SliceStep
  \/ Switch

IsoSpec == IsoInit /\ [][IsoNext]_vars

----------------------------------------------------------------------------
(* C11 *)

\* steps the slice may take before its run alone is given up
Fuel(b) == 3 * Len(b) + 6

\* one slice of body b run alone, from control point p with vt_flag flag and
\* continuation c, after the statements tr
RECURSIVE SoloRun(_, _, _, _, _, _, _)
SoloRun(b, p, flag, c, tr, wr, fuel) ==
  IF fuel = 0 THEN [ip |-> c, wrapped |-> wr, epi |-> 0, tr |-> tr]
  ELSE IF p.k = "stmt" THEN
    IF b[p.i].op = "yield"
      THEN SoloRun(b, AtLabel(p.i), 0, c, Record(tr, p.i), wr, fuel - 1)
    ELSE IF b[p.i].op = "seek"
      THEN SoloRun(b, After(b, p.i), flag, MarkAddress(b[p.i].arg),
                   Record(tr, p.i), wr, fuel - 1)
    ELSE IF b[p.i].op = "break"
      THEN SoloRun(b, AtStop, flag, c, Record(tr, p.i), wr, fuel - 1)
    ELSE SoloRun(b, After(b, p.i), flag, c, Record(tr, p.i), wr, fuel - 1)
  ELSE IF p.k = "label" THEN
    IF flag = 0
      THEN [ip |-> FC_LABEL(p.i), wrapped |-> wr, epi |-> 0, tr |-> tr]
      ELSE SoloRun(b, After(b, p.i), flag, c, tr, wr, fuel - 1)
  ELSE IF p.k = "end" THEN SoloRun(b, AtStmt(1), flag, c, tr, TRUE, fuel - 1)
  ELSE [ip |-> c, wrapped |-> wr, epi |-> 1, tr |-> tr]

\* the slice an instance of b run alone makes when dispatched with address a
SoloSlice(b, a) ==
  LET r == SoloRun(b, FC_RESUME(b, a), 1, a, <<>>, FALSE, Fuel(b))
  IN [ip |-> r.ip, entry |-> a, wrapped |-> r.wrapped, epi |-> r.epi, tr |-> r.tr]

\* the first n slices of an instance of b run alone from address a
RECURSIVE SoloHist(_, _, _)
SoloHist(b, a, n) ==
  IF n = 0 THEN <<>>
  ELSE LET h == SoloHist(b, a, n - 1)
       IN Append(h, SoloSlice(b, IF n = 1 THEN a ELSE h[n - 1].ip))

\* the address the caller's operation op left in ip
StartOf(op) ==
  IF op.op \in {"init", "restart"} THEN BeginAddress ELSE MarkAddress(op.mark)

\* the slices of an instance since the caller's last operation on it are
\* those of the instance run alone
AsAlone(h, op) == h = SoloHist(body, StartOf(op), Len(h))

\* an instance run alone makes the slices SoloHist computes
C11_Alone == AsAlone(hist, lastop)

\* C11: with two instances of one body and two continuations stored apart,
\* invocations, seeks and restarts of one instance, interleaved in any way
\* with those of the other, never write the other's continuation, and each
\* instance makes the slices it makes when run alone.
C11_Isolation ==
  [][ /\ AsAlone(hist', lastop')
      /\ AsAlone(other'.hist, other'.lastop)
      /\ (pc' # Idle /\ Len(other'.hist) > 0 =>
            other'.ip = other'.hist[Len(other'.hist)].ip)
      /\ (other' # other =>
            /\ pc = Idle /\ pc' = Idle
            /\ other'.ip = ip /\ ip' = other.ip
            /\ other'.hist = hist /\ hist' = other.hist
            /\ other'.lastop = lastop /\ lastop' = other.lastop) ]_vars

C11_Witness ==
  /\ body = <<Seg, Seek("M1"), Seg, Yield, Mark("M1"), Seg>>
  /\ pc # Idle
  /\ lastop.op = "init"
  /\ Len(hist) = 1
  /\ ip = FC_LABEL(4)
  /\ trace = <<5, 6, 1>>
  /\ other.lastop = [mark |-> "STOP", op |-> "seek"]
  /\ Len(other.hist) = 1
  /\ other.hist[1].epi = 1
  /\ other.ip = StopAddress

----------------------------------------------------------------------------
(* A seek by another caller while a slice executes *)

\* the bodies of the runs with a seek during a slice
SeekBodies ==
  { <<Seg, Yield, Mark("M1"), Seg, Yield, Seg>>,
    <<Seg, Seek("M1"), Seg, Yield, Mark("M1"), Seg>>,
    <<Seg, Yield, Break>> }

\* VT_SEEK by a caller that holds the continuation, between two steps of the
\* slice: a function the body calls, or an interrupt handler
AsyncSeek(mark) ==
  /\ pc # Idle
  /\ outer = NoFrame
  /\ mark \in Labels(body)
  /\ ip' = FC_POINTER(FC_ASM_LABEL_NAME(THREAD, mark))
  /\ async' = [mark |-> mark, at |-> Len(hist), pos |-> Len(trace)]
  /\ UNCHANGED <<body, other, outer, pc, vt_flag, trace, entry, wrapped, epi,
                 hist, lastop, prev>>

SeekInit == body \in SeekBodies /\ Fresh

SeekNext ==
  \/ VT_INIT
  \/ VT_RESTART
  \/ \E mark \in {"BEGIN", "STOP"} \cup MarkNames : VT_SEEK(mark)
  \/ VT_BEGIN
  \/ SliceStep
  \/ \E mark \in {"BEGIN", "STOP"} \cup MarkNames : AsyncSeek(mark)

SeekSpec == SeekInit /\ [][SeekNext]_vars

----------------------------------------------------------------------------
(* C17 *)

\* the positions in the trace t of the seeks of the body
SeeksIn(t) == {j \in 1..Len(t) : body[t[j]].op = "seek"}

\* the positions in the trace of slice h of the seeks of the body
BodySeeks(h) == SeeksIn(h.tr)

\* the other caller sought during slice k
AsyncIn(k) == async.at = k - 1

\* a seek was performed during slice k
SoughtIn(k) == AsyncIn(k) \/ BodySeeks(hist[k]) # {}

\* the address the seeks of slice k wrote last (the one at entry if none)
SoughtLast(k) ==
  LET h == hist[k]
      js == BodySeeks(h)
      lastj == CHOOSE j \in js : \A l \in js : l <= j
  IN IF AsyncIn(k) /\ (js = {} \/ lastj <= async.pos)
       THEN MarkAddress(async.mark)
     ELSE IF js = {} THEN h.entry
     ELSE MarkAddress(body[h.tr[lastj]].arg)

\* the statement that follows position i, with the wrap of for(;;)
Succ(i) == IF i < Len(body) THEN i + 1 ELSE 1

\* C17: a slice leaves in ip the address written last in it.  When a seek to
\* a mark is performed during the slice, by the body or by another caller
\* holding the continuation, and the slice then executes a yield, ip is the
\* address of that yield's label and not the address sought, and the next
\* invocation resumes behind that yield; a slice that ends without a yield
\* leaves the address sought last.
C17_LastWriteWins ==
  \A k \in 1..Len(hist) :
    (async.at <= k - 1 /\ Len(hist[k].tr) < MaxTrace) =>
      /\ (SoughtIn(k) /\ EndedAtYield(hist[k])) =>
           /\ hist[k].ip = FC_LABEL(Last(hist[k].tr))
           /\ hist[k].ip \notin {MarkAddress(m) : m \in Labels(body)}
           /\ k < Len(hist) =>
                /\ hist[k + 1].entry = FC_LABEL(Last(hist[k].tr))
                /\ hist[k + 1].tr # <<>>
                /\ hist[k + 1].tr[1] = Succ(Last(hist[k].tr))
           /\ (k = Len(hist) /\ pc # Idle) =>
                /\ entry = FC_LABEL(Last(hist[k].tr))
                /\ trace = <<>> => pc \in {AtLabel(Last(hist[k].tr)),
                                           After(body, Last(hist[k].tr)),
                                           AtStmt(Succ(Last(hist[k].tr)))}
                /\ trace # <<>> => trace[1] = Succ(Last(hist[k].tr))
      /\ ~EndedAtYield(hist[k]) => hist[k].ip = SoughtLast(k)

C17_Witness ==
  /\ body = <<Seg, Seek("M1"), Seg, Yield, Mark("M1"), Seg>>
  /\ Len(hist) = 1
  /\ hist[1].tr = <<1, 2, 3, 4>>
  /\ async = [mark |-> "BEGIN", at |-> 0, pos |-> 3]
  /\ hist[1].ip = FC_LABEL(4)
  /\ pc # Idle
  /\ trace = <<5, 6>>

----------------------------------------------------------------------------
(* A second invocation of the instance while a slice executes *)

\* the bodies of the runs with nested invocations
NestBodies ==
  { <<Seg, Yield, Seg>>,
    <<Seek("M1"), Seg, Yield, Mark("M1"), Seg>>,
    <<Seg, Yield, Break>> }

\* the thread function is called again, on the same ip, while a slice
\* executes (from a function the body calls, or from an interrupt handler):
\* the frame of the running slice, its vt_flag included, is set aside
NestedCall ==
  /\ pc # Idle
  /\ outer = NoFrame
  /\ Len(hist) + 1 < MaxInv
  /\ outer' = [pc |-> pc, vt_flag |-> vt_flag, trace |-> trace,
               entry |-> entry, wrapped |-> wrapped, epi |-> epi]
  /\ vt_flag' = 1
  /\ pc' = FC_RESUME(body, ip)
  /\ entry' = ip
  /\ trace' = <<>>
  /\ wrapped' = FALSE
  /\ epi' = 0
  /\ UNCHANGED <<body, other, async, ip, hist, lastop, prev>>

\* the nested invocation has returned: the slice set aside goes on, with ip
\* as the nested invocation left it
NestedReturn ==
  /\ pc = Idle
  /\ outer # NoFrame
  /\ pc' = outer.pc
  /\ vt_flag' = outer.vt_flag
  /\ trace' = outer.trace
  /\ entry' = outer.entry
  /\ wrapped' = outer.wrapped
  /\ epi' = outer.epi
  /\ outer' = NoFrame
  /\ UNCHANGED <<body, other, async, ip, hist, lastop, prev>>

NestInit == body \in NestBodies /\ Fresh

NestNext ==
  \/ outer = NoFrame /\ VT_INIT
  \/ outer = NoFrame /\ VT_RESTART
  \/ outer = NoFrame /\ \E mark \in {"BEGIN", "STOP"} \cup MarkNames : VT_SEEK(mark)
  \/ outer = NoFrame /\ VT_BEGIN
  \/ SliceStep
  \/ NestedCall
  \/ NestedReturn

NestSpec == NestInit /\ [][NestNext]_vars

----------------------------------------------------------------------------
(* C18 *)

\* a second invocation is in progress while a slice is set aside
Nested == outer # NoFrame

\* the step is one of a slice that goes on executing
IsRunningStep == pc # Idle /\ pc' # Idle /\ outer' = outer

\* the step starts a second invocation while a slice executes
IsNestedCall == outer = NoFrame /\ outer' # NoFrame

\* the lesser of two numbers
Min(a, b) == IF a <= b THEN a ELSE b

\* C18 as stated: a second invocation that starts while a slice executes and
\* has not yet recorded its yield dispatches from the continuation value the
\* slice was dispatched from
C18_Original == Nested => entry = outer.entry

\* C18 (amended): nothing keeps a second invocation of the instance from
\* starting while a slice executes.  A slice writes ip only in a seek and in
\* the store of the yield it returns through, so until then the second
\* invocation dispatches from the very value ip holds; when that is the value
\* the slice itself was dispatched from, both invocations execute the same
\* statements, one after the other.  A seek of the slice, or the yield of an
\* earlier nested invocation, makes the two values differ.
C18_NoMutualExclusion ==
  /\ [][(IsRunningStep /\ ~IsBodySeek) => ip' = ip]_vars
  /\ [][IsNestedCall =>
          /\ pc # Idle
          /\ ip' = ip
          /\ entry' = ip
          /\ vt_flag' = 1
          /\ pc' = FC_RESUME(body, ip)
          /\ (SeeksIn(trace) = {} /\ Len(hist) = 0 /\ Len(trace) < MaxTrace)
               => entry' = entry]_vars
  /\ [](Nested /\ entry = outer.entry =>
          \A j \in 1..Min(Len(trace), Len(outer.trace)) :
            trace[j] = outer.trace[j])

C18_Witness ==
  /\ Nested
  /\ body = <<Seg, Yield, Seg>>
  /\ entry = BeginAddress
  /\ outer.entry = BeginAddress
  /\ outer.trace = <<1>>
  /\ trace = <<1>>
  /\ ip = BeginAddress

====
